---- MODULE Spec2Model ----
(***************************************************************************)
(* Model of cmd/lock-rest-client.go: the per-peer lock REST client, its    *)
(* health state (connected flag + retry timer guarded by lockSync), the    *)
(* call wrapper and the six lock operations that share restCall.           *)
(*                                                                         *)
(* Several caller goroutines share one client.  Each goroutine walks       *)
(* through restCall -> call -> isHostUp -> restClient.Call ->              *)
(* markHostDown -> toLockError -> restCall's switch.  The critical         *)
(* sections of isHostUp and markHostDown are entered by taking lockSync    *)
(* and are executed as one step that also releases it (deferred Unlock).   *)
(* Close writes connected without taking lockSync; it is a single store,   *)
(* so wherever it lands relative to a critical section the result equals   *)
(* one of the two serial orders, both of which the model produces.         *)
(*                                                                         *)
(* Time is counted in retry units; a time.Timer is represented by the      *)
(* instant at which its channel becomes readable.  A nil dereference       *)
(* (client.timer.C on a nil timer, a call through a nil restClient) is an  *)
(* unrecovered panic: the process stops.  The remote method name is kept   *)
(* until restClient.Call has been handed it and has returned; nothing      *)
(* reads it afterwards.                                                    *)
(***************************************************************************)
EXTENDS Integers, FiniteSets, Sequences, TLC

\* ---- bounds ----
NThreads == 2
MaxTime == 6

\* ---- program constants ----
defaultRetryUnit == 1
RetryMultiplier == 5

Threads == 1..NThreads

\* The six remote methods (RLock, Lock, RUnlock, Unlock, ForceUnlock, Expired).
Methods == {"RLock", "Lock", "RUnlock", "Unlock", "ForceUnlock", "Expired"}

\* ---- error values ----
\* An error value has an identity (the string naming it here) and a message
\* text.  The sentinels are compared by identity in restCall and by text in
\* toLockError.  Errors coming off the wire never are the sentinels themselves.
NoErr == "nil"
errLockConflict == "errLockConflict"
errLockNotExpired == "errLockNotExpired"
errNodeDown == "errNodeDown"
wireConflict == "wireConflict"
wireNotExpired == "wireNotExpired"
wireNetwork == "wireNetwork"
wireOther == "wireOther"

\* err.Error()
ErrorText(e) ==
  CASE e \in {errLockConflict, wireConflict} -> "lock conflict"
    [] e \in {errLockNotExpired, wireNotExpired} -> "lock not expired"
    [] e = errNodeDown -> "Lock rest server node is down"
    [] e = wireNetwork -> "connection refused"
    [] OTHER -> "unexpected"

\* isNetworkError(err): true for transport-level faults only.
isNetworkError(e) == e = wireNetwork

\* What restClient.Call may hand back: success or one of the wire errors.
TransportResults == {NoErr, wireConflict, wireNotExpired, wireNetwork, wireOther}

\* Variant: no matching by message text.
toLockError_noTextMatch(e) == e

toLockError(e) ==
  IF e = NoErr THEN NoErr
  ELSE IF ErrorText(e) = ErrorText(errLockConflict) THEN errLockConflict
  ELSE IF ErrorText(e) = ErrorText(errLockNotExpired) THEN errLockNotExpired
  ELSE e

\* Response bodies: none (nil), one that still has to be drained, a drained one.
NoBody == "nil"
OpenBody == "open"
DrainedBody == "drained"

\* The body restClient.Call hands back with result e: one with a nil error,
\* none with an error.
TransportBody(e) == IF e = NoErr THEN OpenBody ELSE NoBody

\* What call returns for the transport's (b, e): the body with a nil error,
\* otherwise no body and the error through toLockError.
callReturn(b, e) == IF e = NoErr THEN <<b, NoErr>> ELSE <<NoBody, toLockError(e)>>

\* http.DrainBody(b): nothing for a nil body.
DrainBody(b) == IF b = NoBody THEN NoBody ELSE DrainedBody

\* Variant: the default branch drops the error.
restCallResult_dropsError(e) ==
  IF e = NoErr THEN <<TRUE, NoErr>> ELSE <<FALSE, NoErr>>

\* Variant: the sentinel branch reports a grant.
restCallResult_grantsOnSentinel(e) ==
  IF e = NoErr THEN <<TRUE, NoErr>>
  ELSE IF e \in {errLockConflict, errLockNotExpired} THEN <<TRUE, NoErr>>
  ELSE <<FALSE, e>>

\* restCall's switch on the error returned by call: <<reply, err>>.
restCallResult(e) ==
  IF e = NoErr THEN <<TRUE, NoErr>>
  ELSE IF e \in {errLockConflict, errLockNotExpired} THEN <<FALSE, NoErr>>
  ELSE <<FALSE, e>>

\* ---- peer identity ----
\* The peer a client is constructed for (xnet.Host: Name and Port).
Peers == {[Name |-> "peerB", Port |-> "9001"]}

\* xnet.Host.String(): name and port joined by a colon.
HostString(h) == h.Name \o ":" \o h.Port

\* The path component of every lock REST URL.
lockRESTPath == "lockRESTPath"

\* ---- health state ----
NoTimer == -1
NoHolder == 0

RetryWindow == defaultRetryUnit * RetryMultiplier

\* Variant: a Down client is retried whether or not the timer has fired.
isHostUp_ignoresTimer(c, tm, n) ==
  IF c THEN [ret |-> "true", connected |-> c, timer |-> tm]
  ELSE IF tm = NoTimer THEN [ret |-> "panic", connected |-> c, timer |-> tm]
  ELSE [ret |-> "true", connected |-> TRUE, timer |-> NoTimer]

\* Variant: a fired timer is never consumed.
isHostUp_neverRecovers(c, tm, n) ==
  IF c THEN [ret |-> "true", connected |-> c, timer |-> tm]
  ELSE IF tm = NoTimer THEN [ret |-> "panic", connected |-> c, timer |-> tm]
  ELSE [ret |-> "false", connected |-> c, timer |-> tm]

\* Variant: the timer is taken as fired one unit early.
isHostUp_early(c, tm, n) ==
  IF c THEN [ret |-> "true", connected |-> c, timer |-> tm]
  ELSE IF tm = NoTimer THEN [ret |-> "panic", connected |-> c, timer |-> tm]
  ELSE IF n + 1 >= tm THEN [ret |-> "true", connected |-> TRUE, timer |-> NoTimer]
  ELSE [ret |-> "false", connected |-> c, timer |-> tm]

\* Variant: the fired timer is consumed but the field is not reset to nil.
isHostUp_keepsTimer(c, tm, n) ==
  IF c THEN [ret |-> "true", connected |-> c, timer |-> tm]
  ELSE IF tm = NoTimer THEN [ret |-> "panic", connected |-> c, timer |-> tm]
  ELSE IF n >= tm THEN [ret |-> "true", connected |-> TRUE, timer |-> tm]
  ELSE [ret |-> "false", connected |-> c, timer |-> tm]

\* Variant: a fired timer lets the call through without reconnecting.
isHostUp_noReconnect(c, tm, n) ==
  IF c THEN [ret |-> "true", connected |-> c, timer |-> tm]
  ELSE IF tm = NoTimer THEN [ret |-> "panic", connected |-> c, timer |-> tm]
  ELSE IF n >= tm THEN [ret |-> "true", connected |-> c, timer |-> tm]
  ELSE [ret |-> "false", connected |-> c, timer |-> tm]

\* isHostUp on health state (c, tm) at time n: the value returned ("panic" for
\* the receive on a nil timer's channel) and the health state it leaves.
isHostUp(c, tm, n) ==
  IF c THEN [ret |-> "true", connected |-> c, timer |-> tm]
  ELSE IF tm = NoTimer THEN [ret |-> "panic", connected |-> c, timer |-> tm]
  ELSE IF n >= tm THEN [ret |-> "true", connected |-> TRUE, timer |-> NoTimer]
  ELSE [ret |-> "false", connected |-> c, timer |-> tm]

\* Variant: the timer runs for one retry unit only.
markHostDown_oneUnit(c, tm, n) ==
  IF ~c THEN [connected |-> c, timer |-> tm]
  ELSE [connected |-> FALSE, timer |-> n + defaultRetryUnit]

\* Variant: no early return when already disconnected.
markHostDown_noGuard(c, tm, n) ==
  [connected |-> FALSE, timer |-> n + RetryWindow]

\* markHostDown on health state (c, tm) at time n.
markHostDown(c, tm, n) ==
  IF ~c THEN [connected |-> c, timer |-> tm]
  ELSE [connected |-> FALSE, timer |-> n + RetryWindow]

\* ---- state ----

VARIABLES
  connected,   \* client.connected
  timer,       \* client.timer: NoTimer (nil) or the instant the timer fires
  restClient,  \* TRUE iff client.restClient is non-nil (rest.NewClient succeeded)
  host,        \* client.host
  serverURL,   \* client.serverURL: Host and Path
  lockSync,    \* holder of client.lockSync, NoHolder when free
  now,         \* current time in retry units
  closed,      \* Close has returned on this instance
  closedIdle,  \* Close has returned at a moment when no operation was in progress
  crashed,     \* a nil dereference panicked
  recoveries,  \* number of Down -> Up transitions so far
  pc,          \* per goroutine: position in restCall/call
  method,      \* per goroutine: remote method, until restClient.Call has returned
  err,         \* per goroutine: error returned by restClient.Call
  ncalls,      \* per goroutine: restClient.Call invocations of this operation
  reply,       \* per goroutine: restCall's reply
  rerr,        \* per goroutine: restCall's err
  respBody,    \* per goroutine: response body of this operation: nil, open or drained
  drains,      \* per goroutine: DrainBody calls on a non-nil body in this operation
  period       \* per goroutine (history): value of recoveries when its health check passed

vars == <<connected, timer, restClient, host, serverURL, lockSync, now, closed,
          closedIdle, crashed, recoveries, pc, method, err, ncalls, reply, rerr,
          respBody, drains, period>>

health == <<connected, timer>>
identity == <<host, serverURL>>

\* ServerAddr, ServiceEndpoint and String of the client.
ServerAddr == serverURL.Host
ServiceEndpoint == serverURL.Path
String == HostString(host)
locals == <<pc, method, err, ncalls, reply, rerr, respBody, drains, period>>

\* Variant: the failure branch returns the client as connected, without timer.
newlockRESTClient_failureConnected(built) ==
  /\ restClient = built
  /\ connected = TRUE
  /\ timer = NoTimer

\* newlockRESTClient: connected with no timer when the transport was built,
\* otherwise disconnected with a running timer and a nil restClient.
newlockRESTClient(built) ==
  /\ restClient = built
  /\ connected = built
  /\ timer = IF built THEN NoTimer ELSE 0 + RetryWindow

\* The identity newlockRESTClient gives the client for peer.
newIdentity(peer) ==
  /\ host = peer
  /\ serverURL = [Host |-> HostString(peer), Path |-> lockRESTPath]

Init ==
  /\ \E built \in BOOLEAN : newlockRESTClient(built)
  /\ \E peer \in Peers : newIdentity(peer)
  /\ lockSync = NoHolder
  /\ now = 0
  /\ closed = FALSE
  /\ closedIdle = FALSE
  /\ crashed = FALSE
  /\ recoveries = 0
  /\ pc = [t \in Threads |-> "idle"]
  /\ method = [t \in Threads |-> "none"]
  /\ err = [t \in Threads |-> NoErr]
  /\ ncalls = [t \in Threads |-> 0]
  /\ reply = [t \in Threads |-> FALSE]
  /\ rerr = [t \in Threads |-> NoErr]
  /\ respBody = [t \in Threads |-> NoBody]
  /\ drains = [t \in Threads |-> 0]
  /\ period = [t \in Threads |-> 0]

\* Variant: restCall returns without the deferred DrainBody.
Finish_noDrain(t, b, e) ==
  /\ pc' = [pc EXCEPT ![t] = "done"]
  /\ method' = [method EXCEPT ![t] = "none"]
  /\ reply' = [reply EXCEPT ![t] = restCallResult(e)[1]]
  /\ rerr' = [rerr EXCEPT ![t] = restCallResult(e)[2]]
  /\ respBody' = [respBody EXCEPT ![t] = b]
  /\ UNCHANGED drains

\* restCall's tail once call has returned body b and error e: the switch on e
\* and the deferred DrainBody(b).  The method name is dead from here on and is
\* cleared.
Finish(t, b, e) ==
  /\ pc' = [pc EXCEPT ![t] = "done"]
  /\ method' = [method EXCEPT ![t] = "none"]
  /\ reply' = [reply EXCEPT ![t] = restCallResult(e)[1]]
  /\ rerr' = [rerr EXCEPT ![t] = restCallResult(e)[2]]
  /\ respBody' = [respBody EXCEPT ![t] = DrainBody(b)]
  /\ drains' = [drains EXCEPT ![t] = IF b = NoBody THEN @ ELSE @ + 1]

\* One of the six operations starts: restCall -> call -> isHostUp takes lockSync.
restCall(t, m) ==
  /\ ~crashed
  /\ UNCHANGED identity
  /\ pc[t] = "idle"
  /\ lockSync = NoHolder
  /\ lockSync' = t
  /\ pc' = [pc EXCEPT ![t] = "isHostUp"]
  /\ method' = [method EXCEPT ![t] = m]
  /\ UNCHANGED <<connected, timer, restClient, now, closed, closedIdle, crashed,
                 recoveries, err, ncalls, reply, rerr, respBody, drains,
                 period>>

\* Variant: lockSync is kept while restClient.Call is made (no Unlock on the
\* path that returns true).
callIsHostUp_keepsLock(t) ==
  /\ ~crashed
  /\ UNCHANGED identity
  /\ pc[t] = "isHostUp"
  /\ lockSync = t
  /\ LET r == isHostUp(connected, timer, now) IN
       /\ connected' = r.connected
       /\ timer' = r.timer
       /\ recoveries' = IF ~connected /\ r.connected THEN recoveries + 1 ELSE recoveries
       /\ period' = [period EXCEPT ![t] = IF r.ret = "true" THEN recoveries' ELSE @]
       /\ IF r.ret = "panic"
            THEN /\ crashed' = TRUE
                 /\ lockSync' = NoHolder
                 /\ pc' = [pc EXCEPT ![t] = "panic"]
                 /\ UNCHANGED <<method, ncalls, reply, rerr, respBody, drains>>
          ELSE IF r.ret = "true"
            THEN /\ pc' = [pc EXCEPT ![t] = "Call"]
                 /\ lockSync' = t
                 /\ ncalls' = [ncalls EXCEPT ![t] = @ + 1]
                 /\ UNCHANGED <<crashed, method, reply, rerr, respBody, drains>>
          ELSE /\ Finish(t, NoBody, errNodeDown)
               /\ lockSync' = NoHolder
               /\ UNCHANGED <<crashed, ncalls>>
  /\ UNCHANGED <<restClient, now, closed, closedIdle, err>>

\* call's health check: isHostUp's critical section (the deferred Unlock
\* included) and the branch on its result.  Returning true leads straight into
\* restClient.Call; returning false ends the operation with the node-down error.
callIsHostUp(t) ==
  /\ ~crashed
  /\ UNCHANGED identity
  /\ pc[t] = "isHostUp"
  /\ lockSync = t
  /\ lockSync' = NoHolder
  /\ LET r == isHostUp(connected, timer, now) IN
       /\ connected' = r.connected
       /\ timer' = r.timer
       /\ recoveries' = IF ~connected /\ r.connected THEN recoveries + 1 ELSE recoveries
       /\ period' = [period EXCEPT ![t] = IF r.ret = "true" THEN recoveries' ELSE @]
       /\ IF r.ret = "panic"
            THEN /\ crashed' = TRUE
                 /\ pc' = [pc EXCEPT ![t] = "panic"]
                 /\ UNCHANGED <<method, ncalls, reply, rerr, respBody, drains>>
          ELSE IF r.ret = "true"
            THEN /\ pc' = [pc EXCEPT ![t] = "Call"]
                 /\ ncalls' = [ncalls EXCEPT ![t] = @ + 1]
                 /\ UNCHANGED <<crashed, method, reply, rerr, respBody, drains>>
          ELSE /\ Finish(t, NoBody, errNodeDown)
               /\ UNCHANGED <<crashed, ncalls>>
  /\ UNCHANGED <<restClient, now, closed, closedIdle, err>>

\* Variant: a failed restClient.Call is tried once more before giving up.
restClientCall_retries(t, e) ==
  /\ ~crashed
  /\ UNCHANGED identity
  /\ pc[t] = "Call"
  /\ restClient
  /\ IF e # NoErr /\ ncalls[t] < 2
       THEN /\ ncalls' = [ncalls EXCEPT ![t] = @ + 1]
            /\ UNCHANGED <<pc, method, err, reply, rerr, respBody, drains>>
       ELSE /\ err' = [err EXCEPT ![t] = e]
            /\ Finish(t, callReturn(TransportBody(e), e)[1], callReturn(TransportBody(e), e)[2])
            /\ UNCHANGED ncalls
  /\ UNCHANGED <<connected, timer, restClient, lockSync, now, closed,
                 closedIdle, crashed, recoveries,
                 period>>

\* restClient.Call returns e.  A network error proceeds to markHostDown,
\* which takes lockSync; anything else completes the operation through
\* toLockError and restCall's switch.
restClientCall(t, e) ==
  /\ ~crashed
  /\ UNCHANGED identity
  /\ pc[t] = "Call"
  /\ IF ~restClient
       THEN \* method call through the nil *rest.Client
            /\ crashed' = TRUE
            /\ pc' = [pc EXCEPT ![t] = "panic"]
            /\ UNCHANGED <<lockSync, method, err, reply, rerr, respBody, drains>>
     ELSE IF isNetworkError(e)
       THEN /\ lockSync = NoHolder
            /\ lockSync' = t
            /\ err' = [err EXCEPT ![t] = e]
            /\ pc' = [pc EXCEPT ![t] = "markHostDown"]
            /\ method' = [method EXCEPT ![t] = "none"]
            /\ UNCHANGED <<crashed, reply, rerr, respBody, drains>>
     ELSE /\ err' = [err EXCEPT ![t] = e]
          /\ Finish(t, callReturn(TransportBody(e), e)[1], callReturn(TransportBody(e), e)[2])
          /\ UNCHANGED <<lockSync, crashed>>
  /\ UNCHANGED <<connected, timer, restClient, now, closed, closedIdle,
                 recoveries, ncalls,
                 period>>

\* Variant: a failure of a call that passed its health check before the
\* latest recovery is not recorded.
callMarkHostDown_skipsStale(t) ==
  /\ ~crashed
  /\ UNCHANGED identity
  /\ pc[t] = "markHostDown"
  /\ lockSync = t
  /\ lockSync' = NoHolder
  /\ LET r == IF period[t] < recoveries
                THEN [connected |-> connected, timer |-> timer]
                ELSE markHostDown(connected, timer, now) IN
       /\ connected' = r.connected
       /\ timer' = r.timer
  /\ Finish(t, callReturn(TransportBody(err[t]), err[t])[1],
               callReturn(TransportBody(err[t]), err[t])[2])
  /\ UNCHANGED <<restClient, now, closed, closedIdle, crashed, recoveries,
                 err, ncalls, period>>

\* markHostDown's critical section, then the rest of call and restCall.
callMarkHostDown(t) ==
  /\ ~crashed
  /\ UNCHANGED identity
  /\ pc[t] = "markHostDown"
  /\ lockSync = t
  /\ lockSync' = NoHolder
  /\ LET r == markHostDown(connected, timer, now) IN
       /\ connected' = r.connected
       /\ timer' = r.timer
  /\ Finish(t, callReturn(TransportBody(err[t]), err[t])[1],
               callReturn(TransportBody(err[t]), err[t])[2])
  /\ UNCHANGED <<restClient, now, closed, closedIdle, crashed, recoveries,
                 err, ncalls,
                 period>>

\* The goroutines that ask IsOnline between their operations.  IsOnline writes
\* nothing, so one asking goroutine next to the others' operations shows all
\* the interleavings of the answer with the health state.
Observers == {1}

\* Variant: IsOnline answers what a health check made now would answer.
IsOnline_probesTimer(t) ==
  /\ ~crashed
  /\ UNCHANGED identity
  /\ pc[t] = "idle"
  /\ pc' = [pc EXCEPT ![t] = "IsOnline"]
  /\ reply' = [reply EXCEPT ![t] = (isHostUp(connected, timer, now).ret = "true")]
  /\ UNCHANGED <<connected, timer, restClient, lockSync, now, closed,
                 closedIdle, crashed, recoveries, method, err, ncalls, rerr,
                 respBody, drains, period>>

\* IsOnline called by goroutine t: it returns client.connected, read without
\* lockSync; reply[t] holds the value until the goroutine goes on.
IsOnline(t) ==
  /\ ~crashed
  /\ UNCHANGED identity
  /\ pc[t] = "idle"
  /\ pc' = [pc EXCEPT ![t] = "IsOnline"]
  /\ reply' = [reply EXCEPT ![t] = connected]
  /\ UNCHANGED <<connected, timer, restClient, lockSync, now, closed,
                 closedIdle, crashed, recoveries, method, err, ncalls, rerr,
                 respBody, drains, period>>

\* The operation, or IsOnline, has returned to its caller; the goroutine may
\* start another.
Return(t) ==
  /\ ~crashed
  /\ UNCHANGED identity
  /\ pc[t] \in {"done", "IsOnline"}
  /\ pc' = [pc EXCEPT ![t] = "idle"]
  /\ err' = [err EXCEPT ![t] = NoErr]
  /\ ncalls' = [ncalls EXCEPT ![t] = 0]
  /\ reply' = [reply EXCEPT ![t] = FALSE]
  /\ rerr' = [rerr EXCEPT ![t] = NoErr]
  /\ respBody' = [respBody EXCEPT ![t] = NoBody]
  /\ drains' = [drains EXCEPT ![t] = 0]
  /\ period' = [period EXCEPT ![t] = 0]
  /\ UNCHANGED <<connected, timer, restClient, lockSync, now, closed,
                 closedIdle, crashed, recoveries, method>>

\* Variant: Close also clears the client's host.
Close_clearsHost(t) ==
  /\ ~crashed
  /\ pc[t] = "idle"
  /\ connected' = FALSE
  /\ closed' = TRUE
  /\ closedIdle' = (closedIdle \/ \A u \in Threads : pc[u] = "idle")
  /\ host' = [Name |-> "", Port |-> ""]
  /\ UNCHANGED <<serverURL, timer, restClient, lockSync, now, crashed,
                 recoveries, pc, method, err, ncalls, reply, rerr, respBody, drains,
                 period>>

\* Close: a plain store to connected, no lockSync.
Close(t) ==
  /\ ~crashed
  /\ UNCHANGED identity
  /\ pc[t] = "idle"
  /\ connected' = FALSE
  /\ closed' = TRUE
  /\ closedIdle' = (closedIdle \/ \A u \in Threads : pc[u] = "idle")
  /\ UNCHANGED <<timer, restClient, lockSync, now, crashed, recoveries, pc,
                 method, err, ncalls, reply, rerr, respBody, drains,
                 period>>

\* Passage of time.
Tick ==
  /\ ~crashed
  /\ UNCHANGED identity
  /\ now < MaxTime
  /\ now' = now + 1
  /\ UNCHANGED <<connected, timer, restClient, lockSync, closed, closedIdle, crashed,
                 recoveries, pc, method, err, ncalls, reply, rerr, respBody, drains,
                 period>>

Next ==
  \/ \E t \in Threads, m \in Methods : restCall(t, m)
  \/ \E t \in Threads : callIsHostUp(t)
  \/ \E t \in Threads, e \in TransportResults : restClientCall(t, e)
  \/ \E t \in Threads : callMarkHostDown(t)
  \/ \E t \in Threads : Return(t)
  \/ \E t \in Threads : Close(t)
  \/ \E t \in Observers : IsOnline(t)
  \/ Tick

Spec == Init /\ [][Next]_vars

\* Any step of a caller goroutine inside one of the six operations.
ThreadStep ==
  \E t \in Threads :
    \/ \E m \in Methods : restCall(t, m)
    \/ callIsHostUp(t)
    \/ \E e \in TransportResults : restClientCall(t, e)
    \/ callMarkHostDown(t)
    \/ Return(t)

\* The life of a client that nobody closes.
LiveNext == ThreadStep \/ Tick

\* Time keeps passing and callers keep invoking operations and being
\* scheduled: the goroutines never all stop for ever while one of them can move.
LiveSpec == Init /\ [][LiveNext]_vars /\ WF_vars(Tick) /\ WF_vars(ThreadStep)

TypeOK ==
  /\ connected \in BOOLEAN
  /\ timer \in {NoTimer} \cup (0..(MaxTime + RetryWindow))
  /\ lockSync \in {NoHolder} \cup Threads
  /\ now \in 0..MaxTime
  /\ \A t \in Threads : pc[t] \in {"idle", "isHostUp", "Call", "markHostDown", "done", "panic", "IsOnline"}

\* ---- properties ----

\* Steps of goroutine t.
HealthCheck(t) == pc[t] = "isHostUp" /\ pc'[t] # "isHostUp"
CallReturns(t) == pc[t] = "Call" /\ pc'[t] # "Call"
MarksDown(t) == pc[t] = "markHostDown" /\ pc'[t] # "markHostDown"

\* Down with a retry deadline that has not / has been reached.
InBackoff == ~connected /\ timer # NoTimer /\ now < timer
BackoffElapsed == ~connected /\ timer # NoTimer /\ now >= timer

ConflictText == "lock conflict"
NotExpiredText == "lock not expired"

\* C1: once an operation has recorded a network failure the client is Down,
\* and every health check made by any of the six operations while the client
\* is Down with its deadline not yet reached ends the operation with
\* (false, node-down error), no restClient.Call and the health state untouched.
C1_ShortCircuitWhileDown ==
  [][\A t \in Threads :
       /\ MarksDown(t) => ~connected'
       /\ (HealthCheck(t) /\ InBackoff) =>
            /\ method[t] \in Methods
            /\ pc'[t] = "done"
            /\ reply'[t] = FALSE
            /\ rerr'[t] = errNodeDown
            /\ ncalls'[t] = 0
            /\ health' = health]_vars

\* A client built Up has been tripped by a network failure and, inside the
\* window, one operation is short-circuited while another one already was.
C1_Witness ==
  /\ restClient /\ ~closed /\ InBackoff
  /\ \E t, u \in Threads :
       /\ t # u
       /\ pc[t] = "done" /\ rerr[t] = errNodeDown /\ ncalls[t] = 0
       /\ pc[u] = "done" /\ rerr[u] = errNodeDown /\ ncalls[u] = 0

C3_ProtocolErrorIsDenied ==
  [][\A t \in Threads :
       /\ (HealthCheck(t) /\ connected) => (pc'[t] = "Call" /\ health' = health)
       /\ (CallReturns(t) /\ ErrorText(err'[t]) \in {ConflictText, NotExpiredText}) =>
            /\ method[t] \in Methods
            /\ pc'[t] = "done"
            /\ reply'[t] = FALSE
            /\ rerr'[t] = NoErr
            /\ health' = health]_vars

\* Both texts have been answered with a denial on a client that is still Up.
C3_Witness ==
  /\ connected /\ timer = NoTimer
  /\ \E t, u \in Threads :
       /\ pc[t] = "done" /\ err[t] = wireConflict /\ ~reply[t] /\ rerr[t] = NoErr
       /\ pc[u] = "done" /\ err[u] = wireNotExpired /\ ~reply[u] /\ rerr[u] = NoErr

\* C4: a network error returned by restClient.Call leads to markHostDown, and
\* when markHostDown finds the client Up it leaves it Down with a timer firing
\* five retry units from now; the operation ends with (false, that error).
C4_NetworkFailureTrips ==
  [][\A t \in Threads :
       /\ (CallReturns(t) /\ isNetworkError(err'[t])) => pc'[t] = "markHostDown"
       /\ (MarksDown(t) /\ connected) =>
            /\ isNetworkError(err[t])
            /\ ~connected'
            /\ timer' = now + 5 * defaultRetryUnit
            /\ pc'[t] = "done"
            /\ reply'[t] = FALSE
            /\ rerr'[t] = err[t]]_vars

\* An operation on a built client has failed with the network error at a time
\* later than the start, and the deadline is that time plus the window.
C4_Witness ==
  /\ restClient /\ ~connected /\ now > 0 /\ timer = now + 5 * defaultRetryUnit
  /\ \E t \in Threads :
       pc[t] = "done" /\ err[t] = wireNetwork /\ ~reply[t] /\ rerr[t] = wireNetwork

\* C5: an error from restClient.Call that is no network error and carries
\* neither of the two protocol texts is returned as (false, that same error)
\* and connected and timer are left as they were.
C5_OpaqueErrorPassesThrough ==
  [][\A t \in Threads :
       (/\ CallReturns(t)
        /\ err'[t] # NoErr
        /\ ~isNetworkError(err'[t])
        /\ ErrorText(err'[t]) \notin {ConflictText, NotExpiredText}) =>
         /\ pc'[t] = "done"
         /\ reply'[t] = FALSE
         /\ rerr'[t] = err'[t]
         /\ health' = health]_vars

\* An opaque error has been passed through, once on an Up client and once on
\* a client that another goroutine tripped in the meantime.
C5_Witness ==
  \E t, u \in Threads :
    /\ t # u
    /\ pc[t] = "done" /\ err[t] = wireOther /\ ~reply[t] /\ rerr[t] = wireOther
    /\ pc[u] = "done" /\ err[u] = wireNetwork
    /\ InBackoff

\* C6: a markHostDown that finds the client already Down changes neither
\* connected nor the timer, and a running timer is never replaced by another
\* one: between two different deadlines the timer has been consumed.
C6_SingleTripPerDownPeriod ==
  [][/\ \A t \in Threads : (MarksDown(t) /\ ~connected) => health' = health
     /\ (timer # NoTimer /\ timer' # NoTimer) => timer' = timer]_vars

\* Two operations that were in flight together have both failed with the
\* network error in the same down period, time has moved on since the trip,
\* and the deadline is still the one the first failure set.
C6_Witness ==
  /\ restClient /\ ~closed /\ recoveries = 0 /\ InBackoff
  /\ timer < now + RetryWindow
  /\ \E t, u \in Threads :
       /\ t # u
       /\ pc[t] = "done" /\ rerr[t] = wireNetwork
       /\ pc[u] = "done" /\ rerr[u] = wireNetwork

C8_ClosedStaysDown ==
  [][closedIdle => (/\ ~connected'
                /\ \A t \in Threads : pc[t] # "Call" => pc'[t] # "Call")]_vars

\* C9: the client is never disconnected without a timer.
C9_DownHasTimer == connected \/ timer # NoTimer

\* C10: a finished operation never has reply true together with an error, and
\* its reply is true exactly when restClient.Call was invoked and returned nil.
C10_TriState ==
  \A t \in Threads :
    pc[t] = "done" =>
      /\ ~(reply[t] /\ rerr[t] # NoErr)
      /\ reply[t] <=> (ncalls[t] >= 1 /\ err[t] = NoErr)

\* The three outcomes side by side would need three goroutines; here a grant
\* and a denial, both from calls that went through restClient.Call.
C10_Witness ==
  \E t, u \in Threads :
    /\ pc[t] = "done" /\ reply[t] /\ rerr[t] = NoErr /\ ncalls[t] = 1
    /\ pc[u] = "done" /\ ~reply[u] /\ rerr[u] = NoErr /\ ncalls[u] = 1

\* C11: one operation invokes restClient.Call at most once: the count never
\* exceeds one, and once restClient.Call has returned, whatever the error, the
\* operation only goes on to markHostDown and to its return.
C11_NoInternalRetry ==
  [][\A t \in Threads :
       /\ ncalls'[t] <= 1
       /\ CallReturns(t) =>
            (pc'[t] \in {"markHostDown", "done", "panic"} /\ ncalls'[t] = ncalls[t])
       /\ MarksDown(t) => (pc'[t] = "done" /\ ncalls'[t] = ncalls[t])]_vars

\* Operations have come back with the network error and with an opaque error,
\* each after a single restClient.Call.
C11_Witness ==
  \E t, u \in Threads :
    /\ pc[t] = "done" /\ rerr[t] = wireNetwork /\ ncalls[t] = 1
    /\ pc[u] = "done" /\ rerr[u] = wireOther /\ ncalls[u] = 1

C13_ConstructionYieldsClient ==
  /\ restClient => (connected /\ timer = NoTimer)
  /\ ~restClient => (~connected /\ timer = now + defaultRetryUnit * 5)
  /\ [](\A t \in Threads :
          (~restClient /\ now < defaultRetryUnit * 5) =>
            /\ ~connected /\ timer = defaultRetryUnit * 5
            /\ pc[t] # "Call"
            /\ pc[t] = "done" => (~reply[t] /\ rerr[t] = errNodeDown /\ ncalls[t] = 0))

\* On a client whose transport was not built, two operations have been
\* short-circuited before the initial timer fired.
C13_Witness ==
  /\ ~restClient /\ ~closed /\ now > 0 /\ now < defaultRetryUnit * 5
  /\ \A t \in Threads : pc[t] = "done" /\ rerr[t] = errNodeDown /\ ncalls[t] = 0

\* C14: no step changes what ServerAddr, ServiceEndpoint or String return;
\* String is the host's name:port and nothing else, the service endpoint is
\* the lock REST path, and ServerAddr is the string of the same host.
C14_IdentityIsStable ==
  [][/\ ServerAddr' = ServerAddr
     /\ ServiceEndpoint' = ServiceEndpoint
     /\ String' = String
     /\ String' = host'.Name \o ":" \o host'.Port
     /\ ServerAddr' = String'
     /\ ServiceEndpoint' = lockRESTPath]_vars

\* The client has been through a down period, a recovery and Close, and an
\* operation has been answered since; its identity is that of its peer.
C14_Witness ==
  /\ closed /\ recoveries >= 1
  /\ \E t \in Threads : pc[t] = "done"
  /\ String = "peerB:9001" /\ ServerAddr = "peerB:9001"

\* C15: connected and timer only change in a step of the goroutine that holds
\* lockSync.
C15_HealthChangesUnderLock ==
  [][health' # health =>
       \E t \in Threads : lockSync = t /\ pc[t] \in {"isHostUp", "markHostDown"}
                          /\ pc'[t] # pc[t]]_vars

\* C16: lockSync is only ever held by a goroutine inside isHostUp or
\* markHostDown, never by one inside restClient.Call; a goroutine inside
\* isHostUp can always complete it, and an idle caller can enter its health
\* check while others are inside restClient.Call.
C16_LockNotHeldDuringCall ==
  /\ lockSync # NoHolder => pc[lockSync] \in {"isHostUp", "markHostDown"}
  /\ \A u \in Threads : (pc[u] = "isHostUp" /\ ~crashed) => ENABLED callIsHostUp(u)
  /\ \A u \in Threads :
       (/\ ~crashed
        /\ pc[u] = "idle"
        /\ \A t \in Threads \ {u} : pc[t] \in {"idle", "Call", "done"})
         => ENABLED restCall(u, "Lock")

\* One goroutine is inside restClient.Call while another holds lockSync for
\* its own health check.
C16_Witness ==
  \E t, u \in Threads :
    /\ pc[t] = "Call" /\ ncalls[t] = 1
    /\ pc[u] = "isHostUp" /\ lockSync = u

C18_BodyDrainedOnce ==
  \A t \in Threads :
    /\ respBody[t] # OpenBody
    /\ drains[t] <= 1
    /\ pc[t] = "done" =>
         /\ reply[t] => (respBody[t] = DrainedBody /\ drains[t] = 1 /\ ncalls[t] = 1)
         /\ ~reply[t] => (respBody[t] = NoBody /\ drains[t] = 0)
    /\ pc[t] # "done" => (respBody[t] = NoBody /\ drains[t] = 0)

\* One operation has returned granted with its body drained, another was
\* short-circuited by the health check and never had a body.
C18_Witness ==
  \E t, u \in Threads :
    /\ pc[t] = "done" /\ reply[t] /\ respBody[t] = DrainedBody /\ drains[t] = 1
    /\ pc[u] = "done" /\ rerr[u] = errNodeDown /\ ncalls[u] = 0
    /\ respBody[u] = NoBody /\ drains[u] = 0

\* C19 as stated: whenever a goroutine of a client that nobody closed is at
\* restClient.Call (it passed its health check and has not returned from the
\* transport yet), the client is connected.
C19_TransportOnlyWhileUp ==
  \A t \in Threads : (pc[t] = "Call" /\ ~closed) => connected

\* C19 as amended: a goroutine reaches restClient.Call only through a health
\* check that it makes holding lockSync and that leaves the client connected;
\* from then on lockSync is released, and while the goroutine is at
\* restClient.Call the client is disconnected only by another goroutine's
\* markHostDown after a network error, or by Close.
C19_UpWhenCheckPasses ==
  [][\A t \in Threads :
       /\ (pc[t] # "Call" /\ pc'[t] = "Call") =>
            (HealthCheck(t) /\ lockSync = t /\ lockSync' = NoHolder /\ connected')
       /\ (pc[t] = "Call" /\ connected /\ ~connected') =>
            \/ closed'
            \/ \E u \in Threads \ {t} :
                 MarksDown(u) /\ lockSync = u /\ isNetworkError(err[u])]_vars

\* A goroutine that passed its health check is at restClient.Call of a client
\* that nobody closed, after another goroutine's network error disconnected
\* the client and before the timer fires.
C19_Witness ==
  \E t, u \in Threads :
    /\ ~closed /\ restClient /\ InBackoff
    /\ pc[t] = "Call" /\ ncalls[t] = 1
    /\ pc[u] = "done" /\ rerr[u] = wireNetwork

\* C20 as stated: a step that records a network failure disconnects the
\* client only if the failing call passed its health check after the latest
\* recovery, that is in the current connected period.
C20_LateFailureIgnored ==
  [][\A t \in Threads :
       (MarksDown(t) /\ connected /\ ~connected') => period[t] = recoveries]_vars

\* C20 as amended: a step that records a network failure disconnects a
\* connected client and starts a fresh timer whichever connected period the
\* failing call passed its health check in, also when the client was
\* disconnected and has recovered since; it leaves a disconnected client as it
\* is.
C20_FailureTripsWheneverUp ==
  [][\A t \in Threads :
       /\ (MarksDown(t) /\ connected) =>
            /\ period[t] <= recoveries
            /\ isNetworkError(err[t])
            /\ ~connected' /\ timer' = now + RetryWindow
       /\ (MarksDown(t) /\ connected /\ period[t] < recoveries) =>
            (~connected' /\ timer' = now + defaultRetryUnit * 5 /\ recoveries' = recoveries)
       /\ (MarksDown(t) /\ ~connected) => UNCHANGED health]_vars

\* A call that passed its health check before the client was disconnected and
\* recovered has just failed with a network error and disconnected the
\* recovered client again.
C20_Witness ==
  \E t \in Threads :
    /\ ~closed /\ restClient /\ recoveries >= 1
    /\ pc[t] = "done" /\ rerr[t] = wireNetwork /\ period[t] < recoveries
    /\ ~connected /\ timer = now + RetryWindow

\* C21 as stated: on a built client that nobody closed, IsOnline returns true
\* exactly when a health check made at that moment would return true and let
\* the operation go on to restClient.Call.
C21_IsOnlineAgreesWithHealthCheck ==
  [][\A t \in Threads :
       (pc[t] = "idle" /\ pc'[t] = "IsOnline" /\ restClient /\ ~closed) =>
         (reply'[t] <=> (isHostUp(connected, timer, now).ret = "true"))]_vars

\* C21 as amended: IsOnline returns the stored connected flag and changes
\* nothing.  It agrees with the health check while the client is connected
\* and while it is disconnected with a timer that has not fired; once the
\* timer has fired it still returns false, although a health check made at
\* that moment would return true and reconnect the client.
C21_IsOnlineReportsStoredFlag ==
  [][\A t \in Threads :
       (pc[t] = "idle" /\ pc'[t] = "IsOnline") =>
         /\ reply'[t] = connected
         /\ UNCHANGED <<health, lockSync, recoveries, ncalls>>
         /\ (connected \/ InBackoff) =>
              (reply'[t] <=> (isHostUp(connected, timer, now).ret = "true"))
         /\ BackoffElapsed =>
              (~reply'[t] /\ isHostUp(connected, timer, now).ret = "true")]_vars

\* IsOnline has just returned false on a built client that nobody closed and
\* whose timer has fired, so that the next health check will reconnect it.
C21_Witness ==
  \E t \in Threads :
    /\ restClient /\ ~closed /\ BackoffElapsed
    /\ pc[t] = "IsOnline" /\ ~reply[t]
    /\ isHostUp(connected, timer, now).ret = "true"

\* C22: a client constructed without a transport (restClient is nil) that
\* nobody closed never gets to restClient.Call, also after its first timer
\* has fired: each of its operations ends with (false, node-down error) and
\* no call, and none ends in a panic.
C22_UnbuiltNeverCalls ==
  \A t \in Threads :
    (~restClient /\ ~closed) =>
      /\ pc[t] \notin {"Call", "panic"}
      /\ ncalls[t] = 0
      /\ pc[t] = "done" => (~reply[t] /\ rerr[t] = errNodeDown)
====
